---- MODULE Spec2Model ----
(***************************************************************************)
(* Model of the rock-paper-scissors game of rock-paper-scissor-Game.py:    *)
(* the Choice enum and its beats-relation, GameStats, the three computer   *)
(* strategies, PlayerFactory, RockPaperScissorsGame.play_round / play and  *)
(* GameConfig.save_game / load_game.                                       *)
(*                                                                         *)
(* Two specifications share the variables:                                 *)
(*   Spec       the session of main(): the factory builds the computer     *)
(*              player bound to the human's stats, play() runs rounds,     *)
(*              then optionally saves the human's statistics;              *)
(*   StatsSpec  one GameStats object driven as a library object: any       *)
(*              update(result, choice), save_game(stats) and load_game()   *)
(*              in any order, over every kind of pre-existing save file.   *)
(*                                                                         *)
(* A Python str is a tuple of one-character strings; a raised exception    *)
(* is the name of its class.  random.choice is a nondeterministic choice.  *)
(***************************************************************************)
EXTENDS Integers, Sequences, FiniteSets, TLC

VARIABLES
    pc,               \* position in main() / play()
    difficulty,       \* label handed to PlayerFactory.create_computer_player
    strategy,         \* class of ComputerPlayer._strategy
    human,            \* HumanPlayer._stats (the strategy's opponent_stats)
    computer,         \* ComputerPlayer._stats
    human_choice,     \* locals of the last play_round
    computer_choice,
    result,
    computer_result,
    rounds,           \* number of play_round calls made by play()
    stats,            \* StatsSpec: the GameStats object under test
    updates,          \* StatsSpec: number of update calls made on stats
    file,             \* contents of GameConfig.save_path
    ret,              \* the last call on stats / GameConfig and its outcome
    saved,            \* the stats whose to_dict() save_game last wrote to file, if any
    lines,            \* InputSpec: the lines input() will return, in order
    consumed,         \* InputSpec: number of input() calls that returned a line
    chosen,           \* InputSpec: what HumanPlayer.make_choice returned
    rejected,         \* InputSpec: number of "Invalid choice" messages printed
    continue_game     \* PlaySpec: the local continue_game of play()

vars == <<pc, difficulty, strategy, human, computer, human_choice,
          computer_choice, result, computer_result, rounds,
          stats, updates, file, ret, saved,
          lines, consumed, chosen, rejected, continue_game>>

ioVars == <<lines, consumed, chosen, rejected, continue_game>>

gameVars == <<pc, difficulty, strategy, human, computer, human_choice,
              computer_choice, result, computer_result, rounds>>

(***************************************************************************)
(* Bounds                                                                  *)
(***************************************************************************)
MaxRounds == 4

MaxUpdates == 3

MaxLines == 3

MaxPlayRounds == 3

MaxGames == 4

None == "None"

\* value of a local str not yet assigned
Unset == <<"unset">>

(***************************************************************************)
(* Python helpers                                                          *)
(***************************************************************************)
Range(s) == {s[i] : i \in DOMAIN s}

\* list.count
Count(s, x) == Cardinality({i \in DOMAIN s : s[i] = x})

\* s[-k] of a Python list: IndexError when the list is shorter than k
PyIndexFromEnd(s, k) == IF k <= Len(s) THEN s[Len(s) - k + 1] ELSE "IndexError"

UpperToLower ==
    [c \in {"A", "C", "D", "E", "H", "I", "K", "M", "N", "O", "P", "R", "S",
             "U", "Y"} |->
        CASE c = "A" -> "a" [] c = "C" -> "c" [] c = "D" -> "d"
          [] c = "E" -> "e" [] c = "H" -> "h" [] c = "I" -> "i"
          [] c = "K" -> "k" [] c = "M" -> "m" [] c = "N" -> "n"
          [] c = "O" -> "o" [] c = "P" -> "p" [] c = "R" -> "r"
          [] c = "S" -> "s" [] c = "U" -> "u" [] c = "Y" -> "y"]

\* str.lower
lower(s) == [i \in DOMAIN s |-> IF s[i] \in DOMAIN UpperToLower
                                 THEN UpperToLower[s[i]] ELSE s[i]]

\* characters str.strip() removes
Whitespace == {" ", "\t"}

RECURSIVE lstrip(_)
lstrip(s) == IF s # <<>> /\ Head(s) \in Whitespace THEN lstrip(Tail(s)) ELSE s

RECURSIVE rstrip(_)
rstrip(s) ==
    IF s # <<>> /\ s[Len(s)] \in Whitespace THEN rstrip(SubSeq(s, 1, Len(s) - 1)) ELSE s

\* str.strip
strip(s) == rstrip(lstrip(s))

(***************************************************************************)
(* Choice and GameResult                                                   *)
(***************************************************************************)
\* iteration order of `for choice in Choice`
ChoiceList == <<"ROCK", "PAPER", "SCISSORS">>

Choice == Range(ChoiceList)

key(c) == CASE c = "ROCK" -> "r" [] c = "PAPER" -> "p" [] c = "SCISSORS" -> "s"

\* Choice._name
name(c) ==
    CASE c = "ROCK" -> <<"r", "o", "c", "k">>
      [] c = "PAPER" -> <<"p", "a", "p", "e", "r">>
      [] c = "SCISSORS" -> <<"s", "c", "i", "s", "s", "o", "r", "s">>

from_input_case_sensitive(user_input) ==
    LET hits == {i \in DOMAIN ChoiceList :
                   user_input \in {<<key(ChoiceList[i])>>, name(ChoiceList[i])}}
    IN  IF hits = {} THEN None
        ELSE ChoiceList[CHOOSE i \in hits : \A j \in hits : i <= j]

\* Choice.from_input: the first member whose key or name is user_input.lower()
from_input(user_input) ==
    LET hits == {i \in DOMAIN ChoiceList :
                   lower(user_input) \in {<<key(ChoiceList[i])>>, name(ChoiceList[i])}}
    IN  IF hits = {} THEN None
        ELSE ChoiceList[CHOOSE i \in hits : \A j \in hits : i <= j]

GameResult == {"WIN", "LOSS", "TIE"}

winning_combinations ==
    [c \in Choice |-> CASE c = "ROCK" -> "SCISSORS"
                        [] c = "SCISSORS" -> "PAPER"
                        [] c = "PAPER" -> "ROCK"]

beats(self, other) == winning_combinations[self] = other

determine_result_no_tie(choice1, choice2) ==
    IF beats(choice1, choice2) THEN "WIN" ELSE "LOSS"

\* RockPaperScissorsGame._determine_result
determine_result(choice1, choice2) ==
    IF choice1 = choice2 THEN "TIE"
    ELSE IF beats(choice1, choice2) THEN "WIN"
    ELSE "LOSS"

(***************************************************************************)
(* GameStats                                                               *)
(***************************************************************************)
NewGameStats ==
    [wins |-> 0, losses |-> 0, ties |-> 0, total_games |-> 0,
     choice_history |-> <<>>]

update_tie_dropped(self, res, choice) ==
    [wins           |-> IF res = "WIN" THEN self.wins + 1 ELSE self.wins,
     losses         |-> IF res = "LOSS" THEN self.losses + 1 ELSE self.losses,
     ties           |-> self.ties,
     total_games    |-> self.total_games + 1,
     choice_history |-> Append(self.choice_history, choice)]

update_prepend(self, res, choice) ==
    [wins           |-> IF res = "WIN" THEN self.wins + 1 ELSE self.wins,
     losses         |-> IF res = "LOSS" THEN self.losses + 1 ELSE self.losses,
     ties           |-> IF res \notin {"WIN", "LOSS"} THEN self.ties + 1 ELSE self.ties,
     total_games    |-> self.total_games + 1,
     choice_history |-> <<choice>> \o self.choice_history]

\* GameStats.update
update(self, res, choice) ==
    [wins           |-> IF res = "WIN" THEN self.wins + 1 ELSE self.wins,
     losses         |-> IF res = "LOSS" THEN self.losses + 1 ELSE self.losses,
     ties           |-> IF res \notin {"WIN", "LOSS"} THEN self.ties + 1 ELSE self.ties,
     total_games    |-> self.total_games + 1,
     choice_history |-> Append(self.choice_history, choice)]

(***************************************************************************)
(* Strategies.  Each make_choice is the set of values the call can yield:  *)
(* members of Choice, or the name of the exception it raises.              *)
(***************************************************************************)
\* random.choice(list(Choice))
random_choice == Choice

counter_of_beaten(x) ==
    IF x \notin Choice THEN {x}
    ELSE LET hits == {i \in DOMAIN ChoiceList : beats(x, ChoiceList[i])}
         IN  IF hits = {} THEN random_choice
             ELSE {ChoiceList[CHOOSE i \in hits : \A j \in hits : i <= j]}

\* for choice in Choice: if choice.beats(x): return choice
\* return random.choice(list(Choice))
counter_of(x) ==
    IF x \notin Choice THEN {x}
    ELSE LET hits == {i \in DOMAIN ChoiceList : beats(ChoiceList[i], x)}
         IN  IF hits = {} THEN random_choice
             ELSE {ChoiceList[CHOOSE i \in hits : \A j \in hits : i <= j]}

\* max(set(history), key=history.count): an element of maximal count; which
\* of several is met first depends on the set's iteration order (the hash of
\* the members' names, seeded per process).  max() of an empty set raises.
most_common(history) ==
    IF history = <<>> THEN {"ValueError"}
    ELSE {c \in Range(history) :
            \A d \in Range(history) : Count(history, c) >= Count(history, d)}

RandomStrategy_make_choice == random_choice

CounterStrategy_make_choice_least(history) ==
    IF history = <<>> THEN random_choice
    ELSE UNION {counter_of(m) :
                  m \in {c \in Range(history) :
                           \A d \in Range(history) :
                              Count(history, c) <= Count(history, d)}}

CounterStrategy_make_choice(history) ==
    IF history = <<>> THEN random_choice
    ELSE UNION {counter_of(m) : m \in most_common(history)}

PatternStrategy_predicted(history) ==
    IF PyIndexFromEnd(history, 1) = PyIndexFromEnd(history, 2)
    THEN {PyIndexFromEnd(history, 1)}
    ELSE random_choice

PatternStrategy_make_choice_unguarded(history) ==
    UNION {counter_of(p) : p \in PatternStrategy_predicted(history)}

PatternStrategy_make_choice_copycat(history) ==
    IF Len(history) < 3 THEN random_choice
    ELSE PatternStrategy_predicted(history)

PatternStrategy_make_choice(history) ==
    IF Len(history) < 3 THEN random_choice
    ELSE UNION {counter_of(p) : p \in PatternStrategy_predicted(history)}

\* ComputerPlayer.make_choice: delegates to the strategy, which reads the
\* opponent stats it was bound to
ComputerPlayer_make_choice(strat, opponent_stats) ==
    CASE strat = "RandomStrategy"  -> RandomStrategy_make_choice
      [] strat = "CounterStrategy" -> CounterStrategy_make_choice(opponent_stats.choice_history)
      [] strat = "PatternStrategy" -> PatternStrategy_make_choice(opponent_stats.choice_history)

(***************************************************************************)
(* PlayerFactory                                                           *)
(***************************************************************************)
S_easy == <<"e", "a", "s", "y">>

S_medium == <<"m", "e", "d", "i", "u", "m">>

S_hard == <<"h", "a", "r", "d">>

\* the strategies dict of create_computer_player
strategies ==
    [k \in {S_easy, S_medium, S_hard} |->
        CASE k = S_easy   -> "RandomStrategy"
          [] k = S_medium -> "CounterStrategy"
          [] k = S_hard   -> "PatternStrategy"]

create_computer_player_default_medium(label) ==
    IF lower(label) \in DOMAIN strategies
    THEN strategies[lower(label)] ELSE "CounterStrategy"

\* strategies.get(difficulty.lower(), RandomStrategy())
create_computer_player(label) ==
    IF lower(label) \in DOMAIN strategies
    THEN strategies[lower(label)] ELSE "RandomStrategy"

\* labels handed to the factory
DifficultyLabels ==
    {S_easy, S_medium, S_hard,
     <<"H", "A", "R", "D">>, <<"M", "e", "d", "i", "u", "m">>,
     <<"e", "x", "p", "e", "r", "t">>, <<>>}

(***************************************************************************)
(* GameStats.win_rate and to_dict.  A float is an IEEE-754 double that is  *)
(* not negative: [m, e] stands for m * 2^e, m a numeral of MantissaBits    *)
(* binary digits, most significant first and 1; [<<>>, 0] is 0.0.          *)
(* Operations round to nearest, ties to even.  json.dump writes a float's  *)
(* repr and json.load reads that back as the same double.                  *)
(***************************************************************************)
MantissaBits == 53

\* binary numeral of a natural number, no leading zeros
RECURSIVE NatBits(_)
NatBits(n) == IF n = 0 THEN <<>> ELSE Append(NatBits(n \div 2), n % 2)

Zeros(k) == [i \in 1..k |-> 0]

Reverse(s) == [i \in 1..Len(s) |-> s[Len(s) + 1 - i]]

\* digits lo..hi of the numeral b, counted from the right, times k, plus the
\* carry that comes in from below: the digits of the product, lowest first,
\* and the carry that goes out
RECURSIVE MulAddRange(_, _, _, _, _)
MulAddRange(b, k, lo, hi, carry) ==
    IF lo > hi THEN [bits |-> <<>>, carry |-> carry]
    ELSE IF lo = hi
    THEN LET v == b[Len(b) + 1 - lo] * k + carry
         IN  [bits |-> <<v % 2>>, carry |-> v \div 2]
    ELSE LET mid  == (lo + hi) \div 2
             low  == MulAddRange(b, k, lo, mid, carry)
             high == MulAddRange(b, k, mid + 1, hi, low.carry)
         IN  [bits |-> low.bits \o high.bits, carry |-> high.carry]

\* numeral of b * k + carry
MulAddBits(b, k, carry) ==
    LET p == MulAddRange(b, k, 1, Len(b), carry)
    IN  NatBits(p.carry) \o Reverse(p.bits)

MulBits(b, k) == MulAddBits(b, k, 0)

IncBits(b) == MulAddBits(b, 1, 1)

FloatZero == [m |-> <<>>, e |-> 0]

\* the double nearest to b * 2^e, for a numeral b of at least MantissaBits
\* digits: half-way cases go to the even mantissa
round(b, e) ==
    LET keep == SubSeq(b, 1, MantissaBits)
        rest == SubSeq(b, MantissaBits + 1, Len(b))
        ex   == e + Len(b) - MantissaBits
        half == rest # <<>> /\ rest[1] = 1
        more == \E i \in 2..Len(rest) : rest[i] = 1
        up   == half /\ (more \/ keep[MantissaBits] = 1)
        inc  == IncBits(keep)
    IN  IF ~up THEN [m |-> keep, e |-> ex]
        ELSE IF Len(inc) = MantissaBits THEN [m |-> inc, e |-> ex]
        ELSE [m |-> SubSeq(inc, 1, MantissaBits), e |-> ex + 1]

\* long division: the next n binary digits of rem / t (0 <= rem < t) and
\* the remainder after them
RECURSIVE DivideRange(_, _, _)
DivideRange(rem, t, n) ==
    IF n = 0 THEN [bits |-> <<>>, rem |-> rem]
    ELSE IF n = 1 THEN [bits |-> <<(2 * rem) \div t>>, rem |-> (2 * rem) % t]
    ELSE LET left  == DivideRange(rem, t, n \div 2)
             right == DivideRange(left.rem, t, n - n \div 2)
         IN  [bits |-> left.bits \o right.bits, rem |-> right.rem]

\* the first n binary digits of rem / t after the point, followed by a
\* digit that tells whether a remainder is left
QuotientBits(rem, t, n) ==
    LET q == DivideRange(rem, t, n)
    IN  q.bits \o <<IF q.rem = 0 THEN 0 ELSE 1>>

\* least j with w * 2^j >= t
RECURSIVE Scale(_, _)
Scale(w, t) == IF w >= t THEN 0 ELSE 1 + Scale(2 * w, t)

\* float(x): x a natural number below 2^MantissaBits
FloatOfInt(x) ==
    IF x = 0 THEN FloatZero
    ELSE [m |-> NatBits(x) \o Zeros(MantissaBits - Len(NatBits(x))),
          e |-> Len(NatBits(x)) - MantissaBits]

\* w / t of two ints, 0 <= w <= t, 0 < t: the correctly rounded quotient
TrueDiv(w, t) ==
    IF w = 0 THEN FloatZero
    ELSE LET j == Scale(w, t)
             first == (w * (2 ^ j)) \div t
             rem == (w * (2 ^ j)) % t
         IN  round(NatBits(first) \o QuotientBits(rem, t, MantissaBits),
                   0 - (MantissaBits + 1) - j)

\* x * k for a float x and an int k that is exactly a double
FloatMulInt(x, k) ==
    IF x.m = <<>> \/ k = 0 THEN FloatZero ELSE round(MulBits(x.m, k), x.e)

win_rate_as_fraction(self) ==
    IF self.total_games > 0 THEN TrueDiv(self.wins, self.total_games)
    ELSE FloatZero

\* (self.wins / self.total_games * 100) if self.total_games > 0 else 0.0
win_rate_of(wins, total_games) ==
    IF total_games > 0 THEN FloatMulInt(TrueDiv(wins, total_games), 100)
    ELSE FloatZero

\* win_rate_of on the small counters, computed once
win_rate_table ==
    {[wins |-> w, total_games |-> t, win_rate |-> win_rate_of(w, t)] :
        w \in 0..(MaxRounds + MaxUpdates + MaxGames),
        t \in 0..(MaxRounds + MaxUpdates + MaxGames)}

\* GameStats.win_rate
win_rate(self) ==
    IF \E row \in win_rate_table :
          row.wins = self.wins /\ row.total_games = self.total_games
    THEN (CHOOSE row \in win_rate_table :
             row.wins = self.wins /\ row.total_games = self.total_games).win_rate
    ELSE win_rate_of(self.wins, self.total_games)

StatsKeys == {"wins", "losses", "ties", "total_games", "win_rate", "choice_history"}

\* a JSON object; a key outside `keys` is absent (its field is a filler)
JsonObject(ks, w, l, t, n, wr, h) ==
    [type |-> "object", keys |-> ks, wins |-> w, losses |-> l, ties |-> t,
     total_games |-> n, win_rate |-> wr, choice_history |-> h]

\* a JSON value that is no object: "array", "number", "string", "null"
JsonOther(ty) ==
    [type |-> ty, keys |-> {}, wins |-> 0, losses |-> 0, ties |-> 0,
     total_games |-> 0, win_rate |-> FloatZero, choice_history |-> <<>>]

\* GameStats.to_dict
to_dict(self) ==
    JsonObject(StatsKeys, self.wins, self.losses, self.ties, self.total_games,
               win_rate(self), [i \in DOMAIN self.choice_history |->
                                   key(self.choice_history[i])])

(***************************************************************************)
(* GameConfig: the file at save_path, save_game, load_game                 *)
(***************************************************************************)
\* kind: "absent", "unreadable" (open() raises an IOError), "invalid_json"
\* (json.load raises JSONDecodeError) or "json" (json.load returns data)
File(k, d) == [kind |-> k, data |-> d]

AbsentFile == File("absent", JsonOther("null"))

\* what save_game(stats) can leave at save_path, and whether it wrote the
\* record: open(save_path, 'w') raises IOError (file untouched), the write
\* raises IOError after open truncated the file, or json.dump completes.
\* Both errors are caught and reported; save_game returns None.
save_game(f, self) ==
    {[file |-> f, wrote |-> FALSE],
     [file |-> File("invalid_json", JsonOther("null")), wrote |-> FALSE],
     [file |-> File("json", to_dict(self)), wrote |-> TRUE]}

\* an outcome of a call: op, the exception that escaped it (None when it
\* returned) and the Optional[GameStats] returned, as a set of 0 or 1 stats
Outcome(o, exc, val) == [op |-> o, raised |-> exc, value |-> val]

\* data[k] of the parsed JSON: TypeError unless data is a dict, KeyError
\* when the dict lacks k
Subscript(data, k) ==
    IF data.type # "object" THEN "TypeError"
    ELSE IF k \notin data.keys THEN "KeyError"
    ELSE None

\* the exception raised by evaluating data['wins'], data['losses'],
\* data['ties'], data['total_games'] in that order, None if none
FirstError(data) ==
    LET ks == <<"wins", "losses", "ties", "total_games">>
        bad == {i \in DOMAIN ks : Subscript(data, ks[i]) # None}
    IN  IF bad = {} THEN None
        ELSE Subscript(data, ks[CHOOSE i \in bad : \A j \in bad : i <= j])

load_game_swapped(f) ==
    IF f.kind # "json" \/ FirstError(f.data) # None THEN Outcome("load_game", None, {})
    ELSE Outcome("load_game", None,
                 {[wins |-> f.data.losses, losses |-> f.data.wins,
                   ties |-> f.data.ties, total_games |-> f.data.total_games,
                   choice_history |-> <<>>]})

\* GameConfig.load_game
load_game(f) ==
    IF f.kind = "absent" THEN Outcome("load_game", None, {})
    ELSE IF f.kind \in {"unreadable", "invalid_json"}
    THEN Outcome("load_game", None, {})      \* except (IOError, JSONDecodeError)
    ELSE IF FirstError(f.data) # None
    THEN Outcome("load_game", FirstError(f.data), {})   \* not caught
    ELSE Outcome("load_game", None,
                 {[wins |-> f.data.wins, losses |-> f.data.losses,
                   ties |-> f.data.ties, total_games |-> f.data.total_games,
                   choice_history |-> <<>>]})

\* save files a session may find at save_path
InitialFiles ==
    {AbsentFile,
     File("unreadable", JsonOther("null")),
     File("invalid_json", JsonOther("null")),
     File("json", JsonOther("array")),
     File("json", JsonOther("number")),
     File("json", JsonObject({}, 0, 0, 0, 0, FloatOfInt(0), <<>>)),
     File("json", JsonObject(StatsKeys \ {"total_games"}, 1, 0, 0, 0,
                             FloatOfInt(100), <<"r">>)),
     File("json", JsonObject(StatsKeys \ {"choice_history", "win_rate"}, 0, 1, 0, 1,
                             FloatOfInt(0), <<>>)),
     File("json", JsonObject(StatsKeys, 1, 0, 1, 2, FloatOfInt(99), <<"r", "s">>))}

NoCall == Outcome("none", None, {})

(***************************************************************************)
(* Spec: main() and RockPaperScissorsGame.play()                           *)
(***************************************************************************)
Init ==
    /\ pc = "main"
    /\ difficulty = <<>>
    /\ strategy = "RandomStrategy"
    /\ human = NewGameStats
    /\ computer = NewGameStats
    /\ human_choice = None
    /\ computer_choice = None
    /\ result = None
    /\ computer_result = None
    /\ rounds = 0
    /\ stats = NewGameStats
    /\ updates = 0
    /\ file = AbsentFile
    /\ ret = NoCall
    /\ saved = {}
    /\ lines = <<>>
    /\ consumed = 0
    /\ chosen = None
    /\ rejected = 0
    /\ continue_game = Unset

\* PlayerFactory.create_computer_player(difficulty, human_player.stats)
CreateComputerPlayer ==
    /\ pc = "main"
    /\ \E label \in DifficultyLabels :
          /\ difficulty' = label
          /\ strategy' = create_computer_player(label)
    /\ pc' = "AwaitingMoves"
    /\ UNCHANGED <<human, computer, human_choice, computer_choice, result,
                   computer_result, rounds, stats, updates, file, ret, saved, ioVars>>

\* the dict that maps the human's result to the computer's
inverse_result_identity == [r \in GameResult |-> r]

inverse_result ==
    [r \in GameResult |-> CASE r = "WIN" -> "LOSS" [] r = "LOSS" -> "WIN"
                            [] r = "TIE" -> "TIE"]

PlayRound_human_recorded_first ==
    /\ pc = "AwaitingMoves"
    /\ \E h \in Choice :
          \E c \in ComputerPlayer_make_choice(strategy, update(human, "TIE", h)) :
             IF c \notin Choice
             THEN /\ pc' = c
                  /\ UNCHANGED <<human, computer, human_choice, computer_choice,
                                 result, computer_result, rounds>>
             ELSE /\ human_choice' = h
                  /\ computer_choice' = c
                  /\ result' = determine_result(h, c)
                  /\ human' = update(human, result', h)
                  /\ computer_result' = inverse_result[result']
                  /\ computer' = update(computer, computer_result', c)
                  /\ rounds' = rounds + 1
                  /\ pc' = "AwaitingContinueDecision"
    /\ UNCHANGED <<difficulty, strategy, stats, updates, file, ret, saved, ioVars>>

\* RockPaperScissorsGame.play_round, called by play()
PlayRound ==
    /\ pc = "AwaitingMoves"
    /\ \E h \in Choice, c \in ComputerPlayer_make_choice(strategy, human) :
          IF c \notin Choice
          THEN /\ pc' = c          \* the exception leaves play()
               /\ UNCHANGED <<human, computer, human_choice, computer_choice,
                              result, computer_result, rounds>>
          ELSE /\ human_choice' = h
               /\ computer_choice' = c
               /\ result' = determine_result(h, c)
               /\ human' = update(human, result', h)
               /\ computer_result' = inverse_result[result']
               /\ computer' = update(computer, computer_result', c)
               /\ rounds' = rounds + 1
               /\ pc' = "AwaitingContinueDecision"
    /\ UNCHANGED <<difficulty, strategy, stats, updates, file, ret, saved, ioVars>>

\* "Play another round? (y/n)" answered y
ContinueGame ==
    /\ pc = "AwaitingContinueDecision"
    /\ rounds < MaxRounds
    /\ pc' = "AwaitingMoves"
    /\ UNCHANGED <<difficulty, strategy, human, computer, human_choice,
                   computer_choice, result, computer_result, rounds,
                   stats, updates, file, ret, saved, ioVars>>

\* any other answer: break, print(self.human.stats)
StopGame ==
    /\ pc = "AwaitingContinueDecision"
    /\ pc' = "Terminal"
    /\ UNCHANGED <<difficulty, strategy, human, computer, human_choice,
                   computer_choice, result, computer_result, rounds,
                   stats, updates, file, ret, saved, ioVars>>

\* "Save game statistics? (y/n)" answered y: self.config.save_game(self.human.stats)
SaveStatistics ==
    /\ pc = "Terminal"
    /\ \E o \in save_game(file, human) :
          /\ file' = o.file
          /\ saved' = IF o.wrote THEN {human} ELSE IF o.file = file THEN saved ELSE {}
    /\ ret' = Outcome("save_game", None, {})
    /\ pc' = "Done"
    /\ UNCHANGED <<difficulty, strategy, human, computer, human_choice,
                   computer_choice, result, computer_result, rounds, stats, updates, ioVars>>

\* any other answer
SkipSave ==
    /\ pc = "Terminal"
    /\ pc' = "Done"
    /\ UNCHANGED <<difficulty, strategy, human, computer, human_choice,
                   computer_choice, result, computer_result, rounds,
                   stats, updates, file, ret, saved, ioVars>>

Next ==
    \/ CreateComputerPlayer
    \/ PlayRound
    \/ ContinueGame
    \/ StopGame
    \/ SaveStatistics
    \/ SkipSave

Spec == Init /\ [][Next]_vars

(***************************************************************************)
(* StatsSpec: one GameStats and the GameConfig singleton used directly     *)
(***************************************************************************)
StatsInit ==
    /\ pc = "library"
    /\ difficulty = <<>>
    /\ strategy = "RandomStrategy"
    /\ human = NewGameStats
    /\ computer = NewGameStats
    /\ human_choice = None
    /\ computer_choice = None
    /\ result = None
    /\ computer_result = None
    /\ rounds = 0
    /\ stats = NewGameStats
    /\ updates = 0
    /\ file \in InitialFiles
    /\ ret = NoCall
    /\ saved = {}
    /\ lines = <<>>
    /\ consumed = 0
    /\ chosen = None
    /\ rejected = 0
    /\ continue_game = Unset

\* stats.update(result, choice)
Update ==
    /\ updates < MaxUpdates
    /\ \E r \in GameResult, c \in Choice : stats' = update(stats, r, c)
    /\ updates' = updates + 1
    /\ ret' = Outcome("update", None, {})
    /\ UNCHANGED <<gameVars, file, saved, ioVars>>

\* GameConfig().save_game(stats)
SaveGame ==
    /\ \E o \in save_game(file, stats) :
          /\ file' = o.file
          /\ saved' = IF o.wrote THEN {stats} ELSE IF o.file = file THEN saved ELSE {}
    /\ ret' = Outcome("save_game", None, {})
    /\ UNCHANGED <<gameVars, stats, updates, ioVars>>

\* GameConfig().load_game()
LoadGame ==
    /\ ret' = load_game(file)
    /\ UNCHANGED <<gameVars, stats, updates, file, saved, ioVars>>

StatsNext ==
    \/ Update
    \/ SaveGame
    \/ LoadGame

StatsSpec == StatsInit /\ [][StatsNext]_vars

(***************************************************************************)
(* InputSpec: one call of HumanPlayer.make_choice, fed the lines `lines`   *)
(***************************************************************************)
\* lines typed at the prompt (input() has removed the newline)
InputLines ==
    {<<"r">>, <<"R">>, <<"p">>, <<"S">>,
     <<"r", "o", "c", "k">>, <<"P", "A", "P", "E", "R">>,
     <<"S", "c", "i", "s", "s", "o", "r", "s">>,
     <<>>, <<"x">>, <<"r", "o", "c", "k", "s">>,
     <<" ", "r">>, <<"s", "\t">>, <<" ">>}

InputInit ==
    /\ pc = "make_choice"
    /\ difficulty = <<>>
    /\ strategy = "RandomStrategy"
    /\ human = NewGameStats
    /\ computer = NewGameStats
    /\ human_choice = None
    /\ computer_choice = None
    /\ result = None
    /\ computer_result = None
    /\ rounds = 0
    /\ stats = NewGameStats
    /\ updates = 0
    /\ file = AbsentFile
    /\ ret = NoCall
    /\ saved = {}
    /\ lines \in UNION {[1..n -> InputLines] : n \in 0..MaxLines}
    /\ consumed = 0
    /\ chosen = None
    /\ rejected = 0
    /\ continue_game = Unset

\* one pass of the while True loop: input(...).strip(), Choice.from_input,
\* return the choice or print "Invalid choice! Try again."
ReadLine ==
    /\ pc = "make_choice"
    /\ consumed < Len(lines)
    /\ consumed' = consumed + 1
    /\ LET user_input == strip(lines[consumed + 1])
           choice == from_input(user_input)
       IN  IF choice # None
           THEN /\ chosen' = choice
                /\ pc' = "returned"
                /\ UNCHANGED rejected
           ELSE /\ rejected' = rejected + 1
                /\ UNCHANGED <<chosen, pc>>
    /\ UNCHANGED <<difficulty, strategy, human, computer, human_choice,
                   computer_choice, result, computer_result, rounds,
                   stats, updates, file, ret, saved, lines, continue_game>>

\* input() at the end of the input raises EOFError, which leaves make_choice
EndOfInput ==
    /\ pc = "make_choice"
    /\ consumed = Len(lines)
    /\ pc' = "EOFError"
    /\ UNCHANGED <<difficulty, strategy, human, computer, human_choice,
                   computer_choice, result, computer_result, rounds,
                   stats, updates, file, ret, saved, ioVars>>

InputNext ==
    \/ ReadLine
    \/ EndOfInput

InputSpec == InputInit /\ [][InputNext]_vars

(***************************************************************************)
(* PlaySpec: RockPaperScissorsGame(human, computer).play(), with           *)
(* play_round split where it reports the result and with the answers to    *)
(* the two y/n prompts                                                     *)
(***************************************************************************)
\* lines typed at a y/n prompt
Answers ==
    {<<"y">>, <<"Y">>, <<" ", "y">>, <<"n">>, <<>>, <<"y", "e", "s">>}

PlayInit ==
    /\ pc = "AwaitingMoves"
    /\ difficulty = <<>>
    /\ strategy \in {"RandomStrategy", "CounterStrategy", "PatternStrategy"}
    /\ human = NewGameStats
    /\ computer = NewGameStats
    /\ human_choice = None
    /\ computer_choice = None
    /\ result = None
    /\ computer_result = None
    /\ rounds = 0
    /\ stats = NewGameStats
    /\ updates = 0
    /\ file = AbsentFile
    /\ ret = NoCall
    /\ saved = {}
    /\ lines = <<>>
    /\ consumed = 0
    /\ chosen = None
    /\ rejected = 0
    /\ continue_game = Unset

\* play_round up to the two stats updates
ResolveRound ==
    /\ pc = "AwaitingMoves"
    /\ \E h \in Choice, c \in ComputerPlayer_make_choice(strategy, human) :
          IF c \notin Choice
          THEN /\ pc' = c
               /\ UNCHANGED <<human, computer, human_choice, computer_choice,
                              result, computer_result, rounds>>
          ELSE /\ human_choice' = h
               /\ computer_choice' = c
               /\ result' = determine_result(h, c)
               /\ human' = update(human, result', h)
               /\ computer_result' = inverse_result[result']
               /\ computer' = update(computer, computer_result', c)
               /\ rounds' = rounds + 1
               /\ pc' = "Resolved"
    /\ UNCHANGED <<difficulty, strategy, stats, updates, file, ret, saved, ioVars>>

\* self._display_result(result); return result
DisplayResult ==
    /\ pc = "Resolved"
    /\ pc' = "AwaitingContinueDecision"
    /\ UNCHANGED <<difficulty, strategy, human, computer, human_choice,
                   computer_choice, result, computer_result, rounds,
                   stats, updates, file, ret, saved, ioVars>>

AnswerContinue_unless_n ==
    /\ pc = "AwaitingContinueDecision"
    /\ \E answer \in Answers :
          LET cg == lower(strip(answer))
          IN  /\ cg # <<"n">> => rounds < MaxPlayRounds
              /\ continue_game' = cg
              /\ pc' = IF cg = <<"n">> THEN "Terminal" ELSE "AwaitingMoves"
    /\ UNCHANGED <<difficulty, strategy, human, computer, human_choice,
                   computer_choice, result, computer_result, rounds,
                   stats, updates, file, ret, saved,
                   lines, consumed, chosen, rejected>>

\* continue_game = input(...).strip().lower(); if continue_game != 'y': break
\* (leaving the session and printing self.human.stats)
AnswerContinue ==
    /\ pc = "AwaitingContinueDecision"
    /\ \E answer \in Answers :
          LET cg == lower(strip(answer))
          IN  /\ cg = <<"y">> => rounds < MaxPlayRounds
              /\ continue_game' = cg
              /\ pc' = IF cg # <<"y">> THEN "Terminal" ELSE "AwaitingMoves"
    /\ UNCHANGED <<difficulty, strategy, human, computer, human_choice,
                   computer_choice, result, computer_result, rounds,
                   stats, updates, file, ret, saved,
                   lines, consumed, chosen, rejected>>

\* save_choice = input(...).strip().lower()
\* if save_choice == 'y': self.config.save_game(self.human.stats)
AnswerSave ==
    /\ pc = "Terminal"
    /\ \E answer \in Answers :
          IF lower(strip(answer)) = <<"y">>
          THEN /\ \E o \in save_game(file, human) :
                     /\ file' = o.file
                     /\ saved' = IF o.wrote THEN {human}
                                 ELSE IF o.file = file THEN saved ELSE {}
               /\ ret' = Outcome("save_game", None, {})
          ELSE UNCHANGED <<file, saved, ret>>
    /\ pc' = "Done"
    /\ UNCHANGED <<difficulty, strategy, human, computer, human_choice,
                   computer_choice, result, computer_result, rounds,
                   stats, updates, ioVars>>

PlayNext ==
    \/ ResolveRound
    \/ DisplayResult
    \/ AnswerContinue
    \/ AnswerSave

PlaySpec == PlayInit /\ [][PlayNext]_vars

(***************************************************************************)
(* UpdateSpec: one GameStats object, from its construction, under a        *)
(* sequence of update calls.  result and human_choice hold the arguments   *)
(* of the latest call.                                                     *)
(***************************************************************************)
\* stats = GameStats()
UpdateInit ==
    /\ pc = "library"
    /\ difficulty = <<>>
    /\ strategy = "RandomStrategy"
    /\ human = NewGameStats
    /\ computer = NewGameStats
    /\ human_choice = None
    /\ computer_choice = None
    /\ result = None
    /\ computer_result = None
    /\ rounds = 0
    /\ stats = NewGameStats
    /\ updates = 0
    /\ file = AbsentFile
    /\ ret = NoCall
    /\ saved = {}
    /\ lines = <<>>
    /\ consumed = 0
    /\ chosen = None
    /\ rejected = 0
    /\ continue_game = Unset

\* stats.update(result, choice)
UpdateCall ==
    /\ updates < MaxGames
    /\ \E r \in GameResult, c \in Choice :
          /\ stats' = update(stats, r, c)
          /\ result' = r
          /\ human_choice' = c
    /\ updates' = updates + 1
    /\ UNCHANGED <<pc, difficulty, strategy, human, computer, computer_choice,
                   computer_result, rounds, file, ret, saved, ioVars>>

UpdateNext == UpdateCall

UpdateSpec == UpdateInit /\ [][UpdateNext]_vars

(***************************************************************************)
(* Properties                                                              *)
(***************************************************************************)
\* the cyclic relation Rock > Scissors > Paper > Rock, written out
CyclicBeats(a, b) ==
    <<a, b>> \in {<<"ROCK", "SCISSORS">>, <<"SCISSORS", "PAPER">>, <<"PAPER", "ROCK">>}

\* the human's history as the strategy saw it in the last round played
HistoryBeforeRound ==
    SubSeq(human.choice_history, 1, Len(human.choice_history) - 1)

\* C1: for all symbols a, b: _determine_result(a, b) is Tie iff a = b; for
\* a # b exactly one of _determine_result(a, b), _determine_result(b, a) is
\* Win; _determine_result(a, b) is Win exactly when a beats b in the cycle
\* Rock > Scissors > Paper > Rock, and Loss otherwise.  The result of every
\* round played is the one this rule gives for the two moves of the round.
C1_DetermineResult ==
    /\ \A a, b \in Choice :
          /\ (determine_result(a, b) = "TIE") <=> (a = b)
          /\ a # b => (determine_result(a, b) = "WIN") # (determine_result(b, a) = "WIN")
          /\ (determine_result(a, b) = "WIN") <=> CyclicBeats(a, b)
          /\ (determine_result(a, b) = "LOSS") <=> (a # b /\ ~CyclicBeats(a, b))
    /\ rounds > 0 =>
          result = IF human_choice = computer_choice THEN "TIE"
                   ELSE IF CyclicBeats(human_choice, computer_choice) THEN "WIN"
                   ELSE "LOSS"

C1_Witness ==
    /\ rounds > 0
    /\ human_choice = "SCISSORS"
    /\ computer_choice = "PAPER"
    /\ result = "WIN"

\* C2: after N calls of update on an empty GameStats, whatever the results
\* and choices, total_games = N = wins + losses + ties = len(choice_history),
\* in every state between calls.
C2_TotalsAgree ==
    /\ stats.total_games = updates
    /\ stats.total_games = stats.wins + stats.losses + stats.ties
    /\ stats.total_games = Len(stats.choice_history)

C2_Witness ==
    /\ updates = 3
    /\ stats.wins = 1
    /\ stats.losses = 1
    /\ stats.ties = 1
    /\ stats.choice_history = <<"PAPER", "PAPER", "ROCK">>

\* C3: in every round of play_round the computer's recorded outcome is the
\* inverse of the human's (Win <-> Loss, Tie unchanged) and both trackers
\* are updated once: after k rounds human.wins = computer.losses,
\* human.losses = computer.wins, human.ties = computer.ties and both
\* total_games are k; Rock against Scissors in one round gives the human a
\* win, the computer a loss and both totals 1.
C3_InverseOutcome ==
    /\ human.wins = computer.losses
    /\ human.losses = computer.wins
    /\ human.ties = computer.ties
    /\ human.total_games = rounds
    /\ computer.total_games = rounds
    /\ rounds > 0 =>
          /\ result = "WIN" => computer_result = "LOSS"
          /\ result = "LOSS" => computer_result = "WIN"
          /\ result = "TIE" => computer_result = "TIE"
          /\ human.choice_history[rounds] = human_choice
          /\ computer.choice_history[rounds] = computer_choice
    /\ (rounds = 1 /\ human_choice = "ROCK" /\ computer_choice = "SCISSORS") =>
          /\ result = "WIN" /\ computer_result = "LOSS"
          /\ human.wins = 1 /\ computer.losses = 1
          /\ human.total_games = 1 /\ computer.total_games = 1

C3_Witness ==
    /\ rounds = 1
    /\ human_choice = "ROCK"
    /\ computer_choice = "SCISSORS"
    /\ human.wins = 1
    /\ computer.losses = 1
    /\ computer.total_games = 1

\* C4: on a non-empty opponent history CounterStrategy.make_choice returns
\* the symbol that beats a symbol occurring a maximal number of times in
\* the history; on [Rock, Rock, Rock] it returns Paper.
C4_CounterMostFrequent ==
    (strategy = "CounterStrategy" /\ rounds >= 2) =>
        /\ \E m \in Choice :
              /\ \A d \in Choice :
                    Count(HistoryBeforeRound, m) >= Count(HistoryBeforeRound, d)
              /\ CyclicBeats(computer_choice, m)
        /\ HistoryBeforeRound = <<"ROCK", "ROCK", "ROCK">> => computer_choice = "PAPER"

C4_Witness ==
    /\ strategy = "CounterStrategy"
    /\ rounds = 4
    /\ HistoryBeforeRound = <<"ROCK", "ROCK", "ROCK">>
    /\ computer_choice = "PAPER"

\* C5: on an opponent history of length >= 3 whose last two moves are the
\* same, PatternStrategy.make_choice returns the symbol that beats that
\* move, whatever the earlier moves; ..., Scissors, Scissors gives Rock.
C5_PatternRepeat ==
    (/\ strategy = "PatternStrategy"
     /\ Len(HistoryBeforeRound) >= 3
     /\ HistoryBeforeRound[Len(HistoryBeforeRound)]
           = HistoryBeforeRound[Len(HistoryBeforeRound) - 1]) =>
        /\ CyclicBeats(computer_choice, HistoryBeforeRound[Len(HistoryBeforeRound)])
        /\ HistoryBeforeRound[Len(HistoryBeforeRound)] = "SCISSORS" =>
              computer_choice = "ROCK"

C5_Witness ==
    /\ strategy = "PatternStrategy"
    /\ HistoryBeforeRound = <<"PAPER", "SCISSORS", "SCISSORS">>
    /\ computer_choice = "ROCK"

\* C6: every strategy returns one of the three symbols and raises nothing,
\* on every opponent history; CounterStrategy on the empty history and
\* PatternStrategy on histories of length 0, 1 and 2 can return any of the
\* three.  No round of a session ends in an exception of the strategy.
C6_StrategiesTotal ==
    /\ pc \notin {"ValueError", "IndexError"}
    /\ rounds > 0 => computer_choice \in Choice
    /\ \A st \in {"RandomStrategy", "CounterStrategy", "PatternStrategy"} :
          /\ ComputerPlayer_make_choice(st, human) # {}
          /\ ComputerPlayer_make_choice(st, human) \subseteq {"ROCK", "PAPER", "SCISSORS"}
    /\ ComputerPlayer_make_choice("RandomStrategy", human) = {"ROCK", "PAPER", "SCISSORS"}
    /\ human.choice_history = <<>> =>
          ComputerPlayer_make_choice("CounterStrategy", human) = {"ROCK", "PAPER", "SCISSORS"}
    /\ Len(human.choice_history) < 3 =>
          ComputerPlayer_make_choice("PatternStrategy", human) = {"ROCK", "PAPER", "SCISSORS"}

C6_Witness ==
    /\ strategy = "PatternStrategy"
    /\ rounds = 2
    /\ Len(HistoryBeforeRound) = 1
    /\ computer_choice = "SCISSORS"
    /\ pc = "AwaitingContinueDecision"

\* the strategy class the factory's table gives a lower-case label
StrategyOfLabel(l) ==
    IF l = <<"m", "e", "d", "i", "u", "m">> THEN "CounterStrategy"
    ELSE IF l = <<"h", "a", "r", "d">> THEN "PatternStrategy"
    ELSE "RandomStrategy"

\* C7 (as stated): create_computer_player maps the label easy to
\* RandomStrategy, medium to CounterStrategy, hard to PatternStrategy and
\* every other label to RandomStrategy.
C7_EveryOtherLabelRandom ==
    pc # "main" => strategy = StrategyOfLabel(difficulty)

\* C7 (amended): create_computer_player compares the label ignoring case: a
\* label whose lower-case form is easy gets RandomStrategy, medium
\* CounterStrategy, hard PatternStrategy, and every label whose lower-case
\* form is none of the three gets RandomStrategy.
C7_FactoryIgnoresCase ==
    pc # "main" => strategy = StrategyOfLabel(lower(difficulty))

C7_Witness ==
    /\ difficulty = <<"H", "A", "R", "D">>
    /\ strategy = "PatternStrategy"
    /\ rounds = 1

\* the counters of two GameStats agree
SameCounters(a, b) ==
    /\ a.wins = b.wins
    /\ a.losses = b.losses
    /\ a.ties = b.ties
    /\ a.total_games = b.total_games

\* numerals without leading zeros: a <= b
BitsLeq(a, b) ==
    \/ Len(a) < Len(b)
    \/ /\ Len(a) = Len(b)
       /\ \/ a = b
          \/ \E i \in DOMAIN a : a[i] < b[i] /\ \A j \in 1..(i - 1) : a[j] = b[j]

StripZeros(b) ==
    LET ones == {i \in DOMAIN b : b[i] = 1}
    IN  IF ones = {} THEN <<>>
        ELSE SubSeq(b, CHOOSE i \in ones : \A j \in ones : i <= j, Len(b))

\* digits lo..hi, counted from the right, of a - b for numerals of one
\* length, less the borrow that comes in from below: the digits, lowest
\* first, and the borrow that goes out
RECURSIVE SubRange(_, _, _, _, _)
SubRange(a, b, lo, hi, borrow) ==
    IF lo > hi THEN [bits |-> <<>>, borrow |-> borrow]
    ELSE IF lo = hi
    THEN LET v == a[Len(a) + 1 - lo] - b[Len(b) + 1 - lo] - borrow
         IN  [bits |-> <<(v + 2) % 2>>, borrow |-> IF v < 0 THEN 1 ELSE 0]
    ELSE LET mid  == (lo + hi) \div 2
             low  == SubRange(a, b, lo, mid, borrow)
             high == SubRange(a, b, mid + 1, hi, low.borrow)
         IN  [bits |-> low.bits \o high.bits, borrow |-> high.borrow]

\* |a - b|
BitsDistance(a, b) ==
    LET hi == IF BitsLeq(b, a) THEN a ELSE b
        lo == IF BitsLeq(b, a) THEN b ELSE a
    IN  StripZeros(Reverse(SubRange(hi, Zeros(Len(hi) - Len(lo)) \o lo, 1, Len(hi), 0).bits))

\* the numeral of p * 2^(-x.e - shift): p on the scale of x's mantissa
OnScaleOf(x, p, shift) == NatBits(p) \o Zeros(0 - x.e - shift)

\* the float x times n is exactly p
FloatTimesIs(x, n, p) ==
    IF x.m = <<>> THEN p = 0 ELSE MulBits(x.m, n) = OnScaleOf(x, p, 0)

\* the float x, below 2^7, is at most the natural number p
FloatAtMost(x, p) == x.m = <<>> \/ BitsLeq(x.m, OnScaleOf(x, p, 0))

\* |x * n - p| <= n * 2^-45 for the float x: x is p / n up to the rounding
\* of one division and one multiplication of values below 2^7
FloatTimesIsNearly(x, n, p) ==
    IF x.m = <<>> THEN p = 0
    ELSE BitsLeq(BitsDistance(MulBits(x.m, n), OnScaleOf(x, p, 0)),
                 OnScaleOf(x, n, 45))

\* the float r is 100 * w / n up to rounding, or 0 when n is 0
IsWinRate(r, w, n) ==
    IF n = 0 THEN r = FloatZero ELSE FloatTimesIsNearly(r, n, 100 * w)

\* C8: load_game after a save_game that wrote the statistics (same path, no
\* write in between) returns a GameStats whose wins, losses, ties and
\* total_games are the saved ones; its win_rate is computed from the
\* counters loaded, whatever win_rate the file records.
C8_RoundTripCounters ==
    /\ (ret.op = "load_game" /\ saved # {}) =>
          /\ ret.raised = None
          /\ Cardinality(ret.value) = 1
          /\ \A s \in ret.value : \A sv \in saved :
                /\ SameCounters(s, sv)
                /\ IsWinRate(win_rate(s), sv.wins, sv.total_games)
    /\ ret.op = "load_game" =>
          \A s \in ret.value :
             /\ SameCounters(s, file.data)
             /\ IsWinRate(win_rate(s), file.data.wins, file.data.total_games)

C8_Witness ==
    /\ ret.op = "load_game"
    /\ saved # {}
    /\ \E s \in ret.value : s.wins = 1 /\ s.losses = 1 /\ s.total_games = 3

\* C9: load_game after a save_game that wrote the statistics returns a
\* GameStats whose move history equals the saved one, so that
\* total_games = len(choice_history) holds for the loaded stats too.
C9_RoundTripHistory ==
    (ret.op = "load_game" /\ saved # {}) =>
        \A s \in ret.value : \A sv \in saved :
           /\ s.choice_history = sv.choice_history
           /\ s.total_games = Len(s.choice_history)

\* the file at save_path is malformed or unreadable
BadFile(f) ==
    \/ f.kind \in {"unreadable", "invalid_json"}
    \/ /\ f.kind = "json"
       /\ \/ f.data.type # "object"
          \/ ~({"wins", "losses", "ties", "total_games"} \subseteq f.data.keys)

\* C10: on a malformed or unreadable file (unreadable, invalid JSON, JSON
\* lacking one of wins/losses/ties/total_games, JSON that is no object)
\* load_game raises nothing and returns None.
C10_LoadNeverRaises ==
    (ret.op = "load_game" /\ BadFile(file)) =>
        /\ ret.raised = None
        /\ ret.value = {}

\* the symbol a word names: r/p/s or rock/paper/scissors
SymbolOfWord(w) ==
    IF w \in {<<"r">>, <<"r", "o", "c", "k">>} THEN "ROCK"
    ELSE IF w \in {<<"p">>, <<"p", "a", "p", "e", "r">>} THEN "PAPER"
    ELSE IF w \in {<<"s">>, <<"s", "c", "i", "s", "s", "o", "r", "s">>} THEN "SCISSORS"
    ELSE "None"

\* the lines make_choice has printed "Invalid choice" for
RejectedLines == 1..(IF pc = "returned" THEN consumed - 1 ELSE consumed)

\* C11 (as stated): make_choice re-prompts after every invalid line and
\* returns the symbol of the first valid line, a line being valid exactly
\* when, ignoring case, it is one of r/p/s/rock/paper/scissors; it consumes
\* the leading invalid lines and one more, and changes no statistics.
C11_ValidIgnoringCaseOnly ==
    /\ \A i \in RejectedLines : SymbolOfWord(lower(lines[i])) = "None"
    /\ pc = "returned" =>
          /\ SymbolOfWord(lower(lines[consumed])) # "None"
          /\ chosen = SymbolOfWord(lower(lines[consumed]))

\* C11 (amended): a line is valid exactly when, with leading and trailing
\* whitespace removed and ignoring case, it is one of r/p/s/rock/paper/
\* scissors.  make_choice prints "Invalid choice" and prompts again after
\* every invalid line, returns the symbol of the first valid line having
\* consumed the leading invalid lines and that one, and changes no
\* statistics.
C11_FirstValidLine ==
    /\ \A i \in RejectedLines : SymbolOfWord(lower(strip(lines[i]))) = "None"
    /\ rejected = Cardinality(RejectedLines)
    /\ consumed <= Len(lines)
    /\ pc = "returned" =>
          /\ SymbolOfWord(lower(strip(lines[consumed]))) # "None"
          /\ chosen = SymbolOfWord(lower(strip(lines[consumed])))
    /\ pc # "returned" => chosen = "None"
    /\ pc = "EOFError" => consumed = Len(lines)
    /\ human = NewGameStats
    /\ computer = NewGameStats

C11_Witness ==
    /\ pc = "returned"
    /\ lines = <<<<"x">>, <<>>, <<"P", "A", "P", "E", "R">>>>
    /\ consumed = 3
    /\ rejected = 2
    /\ chosen = "PAPER"

\* the transitions of the session loop
SessionTransitions ==
    {<<"AwaitingMoves", "Resolved">>,
     <<"Resolved", "AwaitingContinueDecision">>,
     <<"AwaitingContinueDecision", "AwaitingMoves">>,
     <<"AwaitingContinueDecision", "Terminal">>,
     <<"Terminal", "Done">>}

C12_StateInv ==
    /\ pc \in {"AwaitingMoves", "Resolved", "AwaitingContinueDecision",
               "Terminal", "Done"}
    /\ pc # "AwaitingMoves" => rounds >= 1
    /\ continue_game # Unset => rounds >= 1
    /\ pc \in {"AwaitingMoves", "Resolved"} => continue_game \in {Unset, <<"y">>}
    /\ pc \in {"Terminal", "Done"} => continue_game \notin {Unset, <<"y">>}
    /\ pc # "Done" => (file = AbsentFile /\ ret.op = "none")
    /\ human.total_games = rounds
    /\ computer.total_games = rounds

C12_Step ==
    /\ pc' # pc => <<pc, pc'>> \in SessionTransitions
    /\ (human' # human \/ computer' # computer) =>
          (pc = "AwaitingMoves" /\ pc' = "Resolved")
    /\ (pc = "AwaitingMoves" /\ pc' = "Resolved") =>
          /\ human'.total_games = human.total_games + 1
          /\ computer'.total_games = computer.total_games + 1
          /\ Len(human'.choice_history) = Len(human.choice_history) + 1
          /\ Len(computer'.choice_history) = Len(computer.choice_history) + 1
    /\ (pc = "AwaitingContinueDecision" /\ pc' = "AwaitingMoves") =>
          continue_game' = <<"y">>
    /\ (pc = "AwaitingContinueDecision" /\ pc' = "Terminal") =>
          continue_game' # <<"y">>
    /\ (file' # file \/ ret' # ret) => (pc = "Terminal" /\ pc' = "Done")

\* C12: play() follows AwaitingMoves -> Resolved -> AwaitingContinueDecision
\* -> (AwaitingMoves | Terminal): a round is played before any continue
\* decision is asked; both stats are updated once per pass, in the step
\* AwaitingMoves -> Resolved and nowhere else; the loop goes back to
\* AwaitingMoves only on the answer y and to Terminal on any other answer;
\* the final report and the optional save come after Terminal, and no
\* stats update follows.
C12_SessionStateMachine == []C12_StateInv /\ [][C12_Step]_vars

C12_Witness ==
    /\ pc = "Done"
    /\ rounds = 2
    /\ continue_game = <<"y", "e", "s">>
    /\ ret.op = "save_game"
    /\ saved = {human}

\* C13 (as stated): win_rate is 0 when total_games = 0 and otherwise equals
\* 100 * wins / total_games, so that win_rate * total_games = 100 * wins.
C13_ExactPercentage ==
    IF stats.total_games = 0 THEN win_rate(stats) = FloatZero
    ELSE FloatTimesIs(win_rate(stats), stats.total_games, 100 * stats.wins)

\* C13 (amended): win_rate is 0 when total_games = 0 and otherwise is the
\* double wins / total_games * 100, which is 100 * wins / total_games up to
\* floating-point rounding: |win_rate * total_games - 100 * wins| is at
\* most total_games * 2^-45, and 0 <= win_rate <= 100.  2 wins in 4 games
\* give exactly 50 and every game won gives exactly 100; 1 win in 3 games
\* gives a double that is not 100/3.
C13_PercentageUpToRounding ==
    /\ stats.total_games = 0 => win_rate(stats) = FloatZero
    /\ stats.total_games > 0 =>
          /\ FloatTimesIsNearly(win_rate(stats), stats.total_games, 100 * stats.wins)
          /\ FloatAtMost(win_rate(stats), 100)
          /\ stats.wins = 0 <=> win_rate(stats) = FloatZero
    /\ (stats.wins = 2 /\ stats.total_games = 4) => win_rate(stats) = FloatOfInt(50)
    /\ (stats.total_games > 0 /\ stats.wins = stats.total_games) =>
          win_rate(stats) = FloatOfInt(100)
    /\ (stats.wins = 1 /\ stats.total_games = 3) =>
          ~FloatTimesIs(win_rate(stats), 3, 100)

C13_Witness ==
    /\ stats.wins = 2
    /\ stats.total_games = 4
    /\ win_rate(stats) = FloatOfInt(50)

\* the counter of a GameStats that an outcome is counted in
CounterOf(self, res) ==
    CASE res = "WIN" -> self.wins
      [] res = "LOSS" -> self.losses
      [] res = "TIE" -> self.ties

\* C14: each call update(result, choice) appends choice as the new last
\* element of the history and leaves every earlier entry as it was and where
\* it was, adds 1 to total_games, adds 1 to the one counter among wins,
\* losses and ties that matches result, and leaves the other two counters
\* unchanged; no step shortens the history or decreases a counter.
C14_UpdateEffect ==
    [][/\ updates' = updates + 1 =>
            /\ Len(stats'.choice_history) = Len(stats.choice_history) + 1
            /\ stats'.choice_history[Len(stats'.choice_history)] = human_choice'
            /\ \A i \in DOMAIN stats.choice_history :
                  stats'.choice_history[i] = stats.choice_history[i]
            /\ stats'.total_games = stats.total_games + 1
            /\ \A res \in GameResult :
                  CounterOf(stats', res) =
                      CounterOf(stats, res) + (IF res = result' THEN 1 ELSE 0)
       /\ Len(stats'.choice_history) >= Len(stats.choice_history)
       /\ stats'.total_games >= stats.total_games
       /\ \A res \in GameResult : CounterOf(stats', res) >= CounterOf(stats, res)
      ]_vars

C14_Witness ==
    /\ updates = 3
    /\ result = "TIE"
    /\ human_choice = "PAPER"
    /\ stats.choice_history = <<"ROCK", "SCISSORS", "PAPER">>
    /\ stats.wins = 1
    /\ stats.losses = 1
    /\ stats.ties = 1
    /\ stats.total_games = 3

\* when a round is about to be played the human's history holds one move per
\* round played, and every computer move that can follow one human move can
\* follow each of the others
C15_StateInv ==
    /\ Len(human.choice_history) = rounds
    /\ pc = "AwaitingMoves" =>
          \A c \in Choice :
             (ENABLED (PlayRound /\ computer_choice' = c)) =>
                \A h \in Choice :
                   ENABLED (PlayRound /\ human_choice' = h /\ computer_choice' = c)

\* a round's computer move is one the strategy yields on the human's history
\* as it was before the round, and the round adds the human's move after it
C15_Step ==
    rounds' = rounds + 1 =>
        /\ computer_choice' \in ComputerPlayer_make_choice(strategy, human)
        /\ human'.choice_history = Append(human.choice_history, human_choice')

\* C15: the computer's move in round n does not depend on the human's move
\* in round n: the history the strategy reads in play_round holds exactly
\* the human's moves of rounds 1..n-1 (the move of round n is recorded after
\* both moves are chosen), so with the same earlier moves and the same
\* random draws a different human move in round n meets the same computer
\* move.
C15_MoveIndependent == []C15_StateInv /\ [][C15_Step]_vars

C15_Witness ==
    /\ strategy = "CounterStrategy"
    /\ rounds = 3
    /\ human.choice_history = <<"ROCK", "ROCK", "SCISSORS">>
    /\ computer_choice = "PAPER"
    /\ result = "WIN"

\* the human has played X in every round so far
PlaysOnly(X) == \A i \in DOMAIN human.choice_history : human.choice_history[i] = X

\* the last round went to the computer, by the symbol that beats X
ComputerWonAgainst(X) ==
    /\ CyclicBeats(computer_choice, X)
    /\ computer_result = "WIN"
    /\ result = "LOSS"

\* first round from which the factory's computer wins against a constant
\* human: 2 at medium, 4 at hard
WinsFrom ==
    CASE lower(difficulty) = S_medium -> 2
      [] lower(difficulty) = S_hard -> 4
      [] OTHER -> MaxRounds + 2

C16_StateInv ==
    \A X \in Choice :
       (PlaysOnly(X) /\ rounds >= WinsFrom) =>
          /\ ComputerWonAgainst(X)
          /\ human.wins <= WinsFrom - 1
          /\ computer.wins >= rounds - (WinsFrom - 1)

C16_Step ==
    \A X \in Choice :
       (rounds' = rounds + 1 /\ PlaysOnly(X)' /\ rounds' >= WinsFrom) =>
          human'.wins = human.wins

\* C16: against a human who plays the same symbol X in every round, the
\* computer the factory creates on the human's live stats wins every round
\* from round 2 on at difficulty medium and every round from round 4 on at
\* difficulty hard, with the symbol that beats X, so the human's wins
\* counter does not increase after round 1 (medium) or round 3 (hard).
C16_ConstantHumanLoses == []C16_StateInv /\ [][C16_Step]_vars

C16_Witness ==
    /\ difficulty = S_hard
    /\ rounds = 4
    /\ human.choice_history = <<"SCISSORS", "SCISSORS", "SCISSORS", "SCISSORS">>
    /\ computer_choice = "ROCK"
    /\ human.wins = 3
    /\ computer.wins = 1

====
